---- MODULE Spec2Model ----
(***************************************************************************)
(* Model of actix-web's src/info.rs: resolution of the connection          *)
(* information of a request (ConnectionInfo::new / ConnectionInfo::get)    *)
(* and the PeerAddr extractor.                                             *)
(*                                                                         *)
(* A string is a sequence of one-character strings, one per byte.  An      *)
(* Option is a sequence of length 0 (None) or 1 (Some(v)).                 *)
(***************************************************************************)
EXTENDS Integers, Sequences, FiniteSets, TLC

VARIABLES
    req,          \* the RequestHead: headers, uri, peer_addr
    extensions,   \* req.extensions(): the ConnectionInfo slot, an Option
    newCfg,       \* the AppConfig ConnectionInfo::new was called with, an Option
    newCalls,     \* how many times ConnectionInfo::new ran on this request
    info,         \* what the last ConnectionInfo::get returned, an Option
    peer,         \* what the last PeerAddr::from_request returned, an Option
    log,          \* the messages written by log::error!
    calls         \* how many operations ran on this request

vars == <<req, extensions, newCfg, newCalls, info, peer, log, calls>>

-----------------------------------------------------------------------------
(* Bounds of the model *)

\* operations run on one request
MaxCalls == 2
\* tokens of the Forwarded token stream (SpecFwd)
MaxTokens == 3
\* length of a raw Forwarded parameter value (SpecUnq)
MaxLen == 3

-----------------------------------------------------------------------------
(* Option *)

None == <<>>
Some(v) == <<v>>
IsSome(o) == Len(o) = 1
Unwrap(o) == o[1]
\* Option::or_else
OrElse(o, alt) == IF IsSome(o) THEN o ELSE alt
\* Option::unwrap_or / unwrap_or_else
UnwrapOr(o, dflt) == IF IsSome(o) THEN o[1] ELSE dflt
\* Option::get_or_insert_with, as the new content of the option
GetOrInsertWith(o, v) == IF IsSome(o) THEN o ELSE Some(v)

-----------------------------------------------------------------------------
(* Bytes and strings *)

QUOTE == "\""
\* a byte outside visible ASCII (HeaderValue::to_str fails on it)
OPAQUE == "x80"

UpperCase == <<"A","B","C","D","E","F","G","H","I","J","K","L","M",
               "N","O","P","Q","R","S","T","U","V","W","X","Y","Z">>
LowerCase == <<"a","b","c","d","e","f","g","h","i","j","k","l","m",
               "n","o","p","q","r","s","t","u","v","w","x","y","z">>
Digits == <<"0","1","2","3","4","5","6","7","8","9">>
Punct == {" ", "!", QUOTE, "#", "$", "%", "&", "'", "(", ")", "*", "+", ",", "-",
          ".", "/", ":", ";", "<", "=", ">", "?", "@", "[", "]", "^", "_",
          "{", "|", "}", "~"}

Range(f) == {f[i] : i \in DOMAIN f}

VisibleAscii ==
    Range(UpperCase) \cup Range(LowerCase) \cup Range(Digits) \cup Punct \cup {"\t"}

\* http::header::value::is_visible_ascii: 32 <= b < 127, or tab
IsVisibleAscii(b) == b \in VisibleAscii

\* char::is_whitespace, on the bytes a header value can hold
Whitespace == {" ", "\t"}

LowerOf == [c \in Range(UpperCase) |->
               LowerCase[CHOOSE i \in DOMAIN UpperCase : UpperCase[i] = c]]

\* char::to_lowercase on ASCII
ToLowerChar(c) == IF c \in DOMAIN LowerOf THEN LowerOf[c] ELSE c

\* str::to_lowercase
ToLowercase(s) == [i \in DOMAIN s |-> ToLowerChar(s[i])]

RECURSIVE TrimStartMatching(_, _)
\* strips every leading char of s that is in the set cs
TrimStartMatching(s, cs) ==
    IF s # <<>> /\ Head(s) \in cs THEN TrimStartMatching(Tail(s), cs) ELSE s

RECURSIVE TrimEndMatching(_, _)
\* strips every trailing char of s that is in the set cs
TrimEndMatching(s, cs) ==
    IF s # <<>> /\ s[Len(s)] \in cs
    THEN TrimEndMatching(SubSeq(s, 1, Len(s) - 1), cs)
    ELSE s

\* str::trim
Trim(s) == TrimEndMatching(TrimStartMatching(s, Whitespace), Whitespace)
\* str::trim_start_matches(char)
TrimStartMatches(s, c) == TrimStartMatching(s, {c})
\* str::trim_end_matches(char)
TrimEndMatches(s, c) == TrimEndMatching(s, {c})

Contains(s, c) == \E i \in DOMAIN s : s[i] = c
Find(s, c) == CHOOSE i \in DOMAIN s : s[i] = c /\ \A j \in 1..(i - 1) : s[j] # c

RECURSIVE Split(_, _)
\* str::split(char), collected: never empty, "" splits into <<"">>
Split(s, c) ==
    IF ~Contains(s, c) THEN <<s>>
    ELSE <<SubSeq(s, 1, Find(s, c) - 1)>> \o Split(SubSeq(s, Find(s, c) + 1, Len(s)), c)

\* str::splitn(2, char), collected: one or two pieces
SplitN2(s, c) ==
    IF ~Contains(s, c) THEN <<s>>
    ELSE <<SubSeq(s, 1, Find(s, c) - 1), SubSeq(s, Find(s, c) + 1, Len(s))>>

RECURSIVE Flatten(_)
\* Iterator::flat_map, applied to the already mapped sequence of sequences
Flatten(ss) == IF ss = <<>> THEN <<>> ELSE Head(ss) \o Flatten(Tail(ss))

\* HeaderValue::to_str().ok()
ToStr(hv) == IF \A i \in DOMAIN hv : IsVisibleAscii(hv[i]) THEN Some(hv) ELSE None

RECURSIVE Decimal(_)
\* Display of an unsigned integer
Decimal(n) == IF n < 10 THEN <<Digits[n + 1]>> ELSE Decimal(n \div 10) \o <<Digits[(n % 10) + 1]>>

\* SocketAddr::to_string of an IPv4 socket address: a.b.c.d:port
AddrToString(addr) ==
    Decimal(addr.ip[1]) \o <<".">> \o Decimal(addr.ip[2]) \o <<".">> \o
    Decimal(addr.ip[3]) \o <<".">> \o Decimal(addr.ip[4]) \o <<":">> \o Decimal(addr.port)

-----------------------------------------------------------------------------
(* Header names and literals *)

FORWARDED == "forwarded"
HOST == "host"
X_FORWARDED_FOR == "x-forwarded-for"
X_FORWARDED_HOST == "x-forwarded-host"
X_FORWARDED_PROTO == "x-forwarded-proto"
HeaderNames == {FORWARDED, HOST, X_FORWARDED_FOR, X_FORWARDED_HOST, X_FORWARDED_PROTO}

S_for == <<"f","o","r">>
S_proto == <<"p","r","o","t","o">>
S_host == <<"h","o","s","t">>
S_by == <<"b","y">>
S_http == <<"h","t","t","p">>
S_https == <<"h","t","t","p","s">>

\* HeaderMap::get: the first value stored under the name
HeadersGet(r, name) == IF r.headers[name] = <<>> THEN None ELSE Some(r.headers[name][1])
\* HeaderMap::get_all: every value stored under the name, in order
HeadersGetAll(r, name) == r.headers[name]

-----------------------------------------------------------------------------
(* info.rs *)

unquote_one_layer(val) ==
    LET t == Trim(val)
        a == IF t # <<>> /\ Head(t) = QUOTE THEN Tail(t) ELSE t
    IN  IF a # <<>> /\ a[Len(a)] = QUOTE THEN SubSeq(a, 1, Len(a) - 1) ELSE a

\* Trim whitespace then any quote marks.
unquote(val) == TrimEndMatches(TrimStartMatches(Trim(val), QUOTE), QUOTE)

\* Extracts and trims first value for given header name.
first_header_value(r, name) ==
    LET h == HeadersGet(r, name)
        hdr == IF IsSome(h) THEN ToStr(Unwrap(h)) ELSE None
    IN  IF IsSome(hdr) THEN Some(Trim(Head(Split(Unwrap(hdr), ",")))) ELSE None

\* pair.trim().splitn(2, '='), Some((items.next()?, items.next()?)):
\* zero or one (name, val) pair
PairOf(pair) ==
    LET items == SplitN2(Trim(pair), "=")
    IN  IF Len(items) = 2 THEN <<items>> ELSE <<>>

\* the iterator chain over the Forwarded header occurrences: the (name, val)
\* pairs in iteration order
ForwardedPairs(r) ==
    LET hdrs  == HeadersGetAll(r, FORWARDED)
        strs  == Flatten([i \in DOMAIN hdrs |-> ToStr(hdrs[i])])
        grps  == Flatten([i \in DOMAIN strs |-> Split(strs[i], ";")])
        pairs == Flatten([i \in DOMAIN grps |-> Split(grps[i], ",")])
    IN  Flatten([i \in DOMAIN pairs |-> PairOf(pairs[i])])

NoForwarded == [host |-> None, scheme |-> None, realip_remote_addr |-> None]

MatchName_last_wins(acc, name, val) ==
    LET n == ToLowercase(Trim(name))
    IN  IF n = S_for THEN [acc EXCEPT !.realip_remote_addr = Some(unquote(val))]
        ELSE IF n = S_proto THEN [acc EXCEPT !.scheme = Some(unquote(val))]
        ELSE IF n = S_host THEN [acc EXCEPT !.host = Some(unquote(val))]
        ELSE acc

\* the match on the lower-cased trimmed name: one iteration of the loop body
MatchName(acc, name, val) ==
    LET n == ToLowercase(Trim(name))
    IN  IF n = S_for
        THEN [acc EXCEPT !.realip_remote_addr = GetOrInsertWith(@, unquote(val))]
        ELSE IF n = S_proto
        THEN [acc EXCEPT !.scheme = GetOrInsertWith(@, unquote(val))]
        ELSE IF n = S_host
        THEN [acc EXCEPT !.host = GetOrInsertWith(@, unquote(val))]
        ELSE IF n = S_by
        THEN acc  \* TODO in the source: continue
        ELSE acc  \* any other name: continue

RECURSIVE ForwardedLoop(_, _)
\* the for loop over the pairs
ForwardedLoop(pairs, acc) ==
    IF pairs = <<>> THEN acc
    ELSE ForwardedLoop(Tail(pairs), MatchName(acc, Head(pairs)[1], Head(pairs)[2]))

new_scheme_legacy_first(fwd, r, cfg) ==
    UnwrapOr(
        OrElse(OrElse(OrElse(first_header_value(r, X_FORWARDED_PROTO),
                             fwd.scheme),
                      r.uri.scheme),
               IF cfg.secure THEN Some(S_https) ELSE None),
        S_http)

new_scheme_uri_first(fwd, r, cfg) ==
    UnwrapOr(
        OrElse(OrElse(OrElse(fwd.scheme,
                             r.uri.scheme),
                      first_header_value(r, X_FORWARDED_PROTO)),
               IF cfg.secure THEN Some(S_https) ELSE None),
        S_http)

\* let scheme = scheme.or_else(..).or_else(..).or_else(..).unwrap_or("http")
new_scheme(fwd, r, cfg) ==
    UnwrapOr(
        OrElse(OrElse(OrElse(fwd.scheme,
                             first_header_value(r, X_FORWARDED_PROTO)),
                      r.uri.scheme),
               IF cfg.secure THEN Some(S_https) ELSE None),
        S_http)

new_host_skip_host_header(fwd, r, cfg) ==
    UnwrapOr(
        OrElse(OrElse(fwd.host,
                      first_header_value(r, X_FORWARDED_HOST)),
               r.uri.authority),
        cfg.host)

\* let host = host.or_else(..).or_else(..).or_else(..).unwrap_or_else(|| cfg.host())
new_host(fwd, r, cfg) ==
    LET h == HeadersGet(r, HOST)
    IN  UnwrapOr(
            OrElse(OrElse(OrElse(fwd.host,
                                 first_header_value(r, X_FORWARDED_HOST)),
                          IF IsSome(h) THEN ToStr(Unwrap(h)) ELSE None),
                   r.uri.authority),
            cfg.host)

new_realip_remote_addr_from_host(fwd, r) ==
    OrElse(fwd.realip_remote_addr, first_header_value(r, X_FORWARDED_HOST))

\* let realip_remote_addr = realip_remote_addr.or_else(..)
new_realip_remote_addr(fwd, r) ==
    OrElse(fwd.realip_remote_addr, first_header_value(r, X_FORWARDED_FOR))

\* let remote_addr = req.peer_addr.map(|addr| addr.to_string())
new_remote_addr(r) ==
    IF IsSome(r.peer_addr) THEN Some(AddrToString(Unwrap(r.peer_addr))) ELSE None

\* ConnectionInfo::new
new(r, cfg) ==
    LET fwd == ForwardedLoop(ForwardedPairs(r), NoForwarded)
    IN  [remote_addr        |-> new_remote_addr(r),
         scheme             |-> new_scheme(fwd, r, cfg),
         host               |-> new_host(fwd, r, cfg),
         realip_remote_addr |-> new_realip_remote_addr(fwd, r)]

\* ConnectionInfo::scheme
scheme(ci) == ci.scheme
\* ConnectionInfo::host
host(ci) == ci.host
\* ConnectionInfo::remote_addr
remote_addr(ci) == ci.remote_addr

realip_remote_addr_no_fallback(ci) == ci.realip_remote_addr

\* ConnectionInfo::realip_remote_addr
realip_remote_addr(ci) == OrElse(ci.realip_remote_addr, ci.remote_addr)

-----------------------------------------------------------------------------
(* The requests and configurations the operations are run on *)

S_localhost == <<"l","o","c","a","l","h","o","s","t",":","8","0","8","0">>
S_actix == <<"a","c","t","i","x",".","r","s">>
F_full == <<"f","o","r","=","c","1",";"," ","p","r","o","t","o","=","h","t","t","p","s",";"," ","b","y","=","p","1",";"," ","h","o","s","t","=","h",".","r","s">>
F_empty == <<"p","r","o","t","o","=",",","h","o","s","t","=">>
F_protos == <<"p","r","o","t","o","=","h","t","t","p",","," ","p","r","o","t","o","=","h","t","t","p","s">>
F_for_only == <<"F","o","r"," ","="," ","\"","c","1","\"">>
F_host_only == <<"h","o","s","t","=","h",".","r","s">>
XP_list == <<" ","h","t","t","p"," ",",","h","t","t","p","s">>
XH_list == <<" ","x",".","i","o"," ",",","y",".","i","o">>
XF_list == <<"c","2"," ",",","c","3">>
H_value == <<"h",".","o","r","g">>
U_authority == <<"u",".","r","s">>
I_for1 == <<"f","o","r","=","c","1">>
I_for2 == <<" ","F","O","R"," ","="," ","\"","c","2","\"">>
I_proto1 == <<"p","r","o","t","o","=","h","t","t","p","s">>
I_proto2 == <<"P","r","o","t","o","=","h","t","t","p"," ">>
I_host1 == <<"h","o","s","t","=","h","1">>
I_host2 == <<"H","O","S","T","=","\"","h","2","\"">>
I_by == <<"b","y","=","c","3">>
S_empty == <<>>
H_opaque == <<"h", OPAQUE>>

\* AppConfig: secure flag and default host
Configs == [secure : BOOLEAN, host : {S_localhost, S_actix}]

\* the AppConfig of a default test request: not secure, localhost:8080
DefaultConfig == [secure |-> FALSE, host |-> S_localhost]

\* IPv4 socket addresses
Addrs == {[ip |-> <<127, 0, 0, 1>>, port |-> 8080]}

NoHeaders == [n \in HeaderNames |-> <<>>]

\* Uri: nothing but a path, authority form, absolute form
Uris == {[scheme |-> None, authority |-> None],
         [scheme |-> None, authority |-> Some(U_authority)],
         [scheme |-> Some(S_http), authority |-> Some(U_authority)],
         [scheme |-> Some(S_https), authority |-> Some(U_authority)]}

PeerAddrs == {None} \cup {Some(a) : a \in Addrs}

ForwardedSamples == {<<>>, <<F_full>>, <<F_empty>>, <<F_protos>>,
                     <<H_opaque, F_for_only>>, <<F_host_only>>}
XProtoSamples == {<<>>, <<XP_list>>, <<S_empty>>, <<H_opaque, S_https>>}
XHostSamples == {<<>>, <<XH_list>>, <<S_empty>>}
XForSamples == {<<>>, <<XF_list>>, <<H_opaque>>}
HostSamples == {<<>>, <<H_value>>, <<H_opaque>>}

Requests ==
    {[headers |-> [n \in HeaderNames |->
                      CASE n = FORWARDED -> f
                        [] n = X_FORWARDED_PROTO -> xp
                        [] n = X_FORWARDED_HOST -> xh
                        [] n = X_FORWARDED_FOR -> xf
                        [] OTHER -> h],
      uri |-> u, peer_addr |-> p] :
        f \in ForwardedSamples, xp \in XProtoSamples, xh \in XHostSamples,
        xf \in XForSamples, h \in HostSamples, u \in Uris, p \in PeerAddrs}

Fresh ==
    /\ extensions = None
    /\ newCfg = None
    /\ newCalls = 0
    /\ info = None
    /\ peer = None
    /\ log = <<>>
    /\ calls = 0

Init == req \in Requests /\ Fresh

\* the parameters a Forwarded token stream is made of
ForwardedItems == {I_for1, I_for2, I_proto1, I_proto2, I_host1, I_host2, I_by}
\* what separates two tokens: a comma, a semicolon, the end of a header occurrence
Breaks == {",", ";", "hdr"}

RECURSIVE JoinTokens(_, _)
\* the Forwarded header occurrences spelling the tokens its, separated by brks
JoinTokens(its, brks) ==
    IF Len(its) = 0 THEN <<>>
    ELSE IF Len(its) = 1 THEN <<its[1]>>
    ELSE LET rest == JoinTokens(Tail(its), Tail(brks))
         IN  IF Head(brks) = "hdr" THEN <<its[1]>> \o rest
             ELSE <<its[1] \o <<Head(brks)>> \o Head(rest)>> \o Tail(rest)

TokenStreams ==
    UNION {{JoinTokens(its, brks) : its \in [1..n -> ForwardedItems],
                                    brks \in [1..(IF n = 0 THEN 0 ELSE n - 1) -> Breaks]} :
           n \in 0..MaxTokens}

InitFwd ==
    /\ req \in {[headers |-> [NoHeaders EXCEPT ![FORWARDED] = f,
                                               ![X_FORWARDED_PROTO] = <<XP_list>>,
                                               ![X_FORWARDED_HOST] = <<XH_list>>,
                                               ![X_FORWARDED_FOR] = <<XF_list>>],
                 uri |-> [scheme |-> None, authority |-> None],
                 peer_addr |-> None] : f \in TokenStreams}
    /\ Fresh

RawAlphabet == {" ", "\t", QUOTE, "a", "="}
RawValues == UNION {[1..n -> RawAlphabet] : n \in 0..MaxLen}
ParamNames == {S_for, S_proto, S_host}

InitUnq ==
    /\ req \in {[headers |-> [NoHeaders EXCEPT ![FORWARDED] = <<nm \o <<"=">> \o raw>>],
                 uri |-> [scheme |-> None, authority |-> None],
                 peer_addr |-> p] :
                    nm \in ParamNames, raw \in RawValues, p \in PeerAddrs}
    /\ Fresh

-----------------------------------------------------------------------------
(* Operations *)

get_always_new(cfg) ==
    /\ calls < MaxCalls
    /\ extensions' = Some(new(req, cfg))
    /\ newCfg' = Some(cfg)
    /\ newCalls' = newCalls + 1
    /\ info' = extensions'
    /\ calls' = calls + 1
    /\ UNCHANGED <<req, peer, log>>

\* ConnectionInfo::get(req, cfg)
get(cfg) ==
    /\ calls < MaxCalls
    /\ IF ~IsSome(extensions)
       THEN /\ extensions' = Some(new(req, cfg))
            /\ newCfg' = Some(cfg)
            /\ newCalls' = newCalls + 1
       ELSE UNCHANGED <<extensions, newCfg, newCalls>>
    /\ info' = extensions'
    /\ calls' = calls + 1
    /\ UNCHANGED <<req, peer, log>>

MissingPeerAddr == [ok |-> FALSE, err |-> "Missing peer address"]
PeerAddr(addr) == [ok |-> TRUE, addr |-> addr]

from_request_unspecified ==
    /\ calls < MaxCalls
    /\ peer' = Some(PeerAddr(UnwrapOr(req.peer_addr, [ip |-> <<0, 0, 0, 0>>, port |-> 0])))
    /\ calls' = calls + 1
    /\ UNCHANGED <<req, extensions, newCfg, newCalls, info, log>>

\* <PeerAddr as FromRequest>::from_request
from_request ==
    /\ calls < MaxCalls
    /\ IF IsSome(req.peer_addr)
       THEN /\ peer' = Some(PeerAddr(Unwrap(req.peer_addr)))
            /\ UNCHANGED log
       ELSE /\ log' = Append(log, "Missing peer address.")
            /\ peer' = Some(MissingPeerAddr)
    /\ calls' = calls + 1
    /\ UNCHANGED <<req, extensions, newCfg, newCalls, info>>

Next == (\E cfg \in Configs : get(cfg)) \/ from_request

Spec == Init /\ [][Next]_vars

\* resolution alone, under the default configuration
NextNew == \E cfg \in {DefaultConfig} : get(cfg)

SpecFwd == InitFwd /\ [][NextNew]_vars

\* resolution alone, on one Forwarded parameter with an arbitrary raw value
SpecUnq == InitUnq /\ [][NextNew]_vars

-----------------------------------------------------------------------------
(* What the specification says, stated on positions of the header text *)

Min(S) == CHOOSE x \in S : \A y \in S : x <= y
Max(S) == CHOOSE x \in S : \A y \in S : x >= y

\* s without the characters of cs at its two ends
Stripped(s, cs) ==
    LET keep == {i \in DOMAIN s : s[i] \notin cs}
    IN  IF keep = {} THEN <<>> ELSE SubSeq(s, Min(keep), Max(keep))

WsTrimmed(s) == Stripped(s, {" ", "\t"})
AllQuotesStripped(s) == Stripped(s, {QUOTE})

\* s without at most one quote at its start and at most one at its end
OneQuoteLayerStripped(s) ==
    LET from == IF Len(s) >= 1 /\ s[1] = QUOTE THEN 2 ELSE 1
        to   == IF Len(s) >= from /\ s[Len(s)] = QUOTE THEN Len(s) - 1 ELSE Len(s)
    IN  SubSeq(s, from, to)

IsText(hv) == OPAQUE \notin Range(hv)

\* the text before the first occurrence of a character of cs after position a
UpTo(s, a, cs) ==
    LET stops == {i \in (a + 1)..Len(s) : s[i] \in cs}
    IN  SubSeq(s, a + 1, IF stops = {} THEN Len(s) ELSE Min(stops) - 1)

\* the first comma-separated value, trimmed, of the first occurrence of a header
LegacyValue(r, name) ==
    IF r.headers[name] = <<>> \/ ~IsText(r.headers[name][1]) THEN None
    ELSE Some(WsTrimmed(UpTo(r.headers[name][1], 0, {","})))

\* the places a token of the Forwarded stream starts after: <<occurrence, position>>
TokenStarts(r) ==
    LET hdrs == r.headers[FORWARDED]
    IN  UNION {{<<k, a>> : a \in {0} \cup {i \in DOMAIN hdrs[k] : hdrs[k][i] \in {";", ","}}} :
               k \in {j \in DOMAIN hdrs : IsText(hdrs[j])}}

TokenAt(r, st) == WsTrimmed(UpTo(r.headers[FORWARDED][st[1]], st[2], {";", ","}))
TokenHasName(tok, name) ==
    /\ "=" \in Range(tok)
    /\ ToLowercase(WsTrimmed(UpTo(tok, 0, {"="}))) = name
TokenRawValue(tok) == SubSeq(tok, Min({i \in DOMAIN tok : tok[i] = "="}) + 1, Len(tok))
TokenValue(tok) == AllQuotesStripped(WsTrimmed(TokenRawValue(tok)))

Before(s, t) == s[1] < t[1] \/ (s[1] = t[1] /\ s[2] <= t[2])

\* the tokens named name, by their places
Named(r, name) == {st \in TokenStarts(r) : TokenHasName(TokenAt(r, st), name)}

\* the value of the first token named name in the stream
FirstForwarded(r, name) ==
    LET named == Named(r, name)
    IN  IF named = {} THEN None
        ELSE Some(TokenValue(TokenAt(r, CHOOSE st \in named :
                                            \A other \in named : Before(st, other))))

\* the first defined value of a list of optional values
FirstDefined(os) ==
    IF \A i \in DOMAIN os : os[i] = None THEN None
    ELSE os[Min({i \in DOMAIN os : os[i] # None})]

\* the ConnectionInfo the last get returned, and the config new was run with
Returned == Unwrap(info)
UsedConfig == Unwrap(newCfg)

S_peer == <<"1","2","7",".","0",".","0",".","1",":","8","0","8","0">>
\* the text of a transport address
PeerText(p) == IF p = None THEN None ELSE Some(S_peer)

-----------------------------------------------------------------------------
(* Claims *)

\* C1: the scheme of the resolved ConnectionInfo is the first defined value of:
\* the first proto value of Forwarded, the trimmed first comma-separated value
\* of X-Forwarded-Proto, the scheme of the request URI, "https" when the config
\* is secure, "http".
C1_SchemePrecedence ==
    IsSome(info) =>
        Some(scheme(Returned)) =
            FirstDefined(<<FirstForwarded(req, S_proto),
                           LegacyValue(req, X_FORWARDED_PROTO),
                           req.uri.scheme,
                           IF UsedConfig.secure THEN Some(S_https) ELSE None,
                           Some(S_http)>>)

\* C1 witness: no proto in Forwarded, X-Forwarded-Proto " http ,https" and a
\* request URI with scheme https: the scheme is "http"
C1_Witness ==
    /\ IsSome(info)
    /\ FirstForwarded(req, S_proto) = None
    /\ req.headers[X_FORWARDED_PROTO] = <<XP_list>>
    /\ req.uri.scheme = Some(S_https)
    /\ scheme(Returned) = S_http

\* C2: the host of the resolved ConnectionInfo is the first defined value of:
\* the first host value of Forwarded, the (trimmed) first comma-separated value
\* of X-Forwarded-Host, the Host header value, the authority of the request
\* URI, the configured default host.
C2_HostPrecedence ==
    IsSome(info) =>
        Some(host(Returned)) =
            FirstDefined(<<FirstForwarded(req, S_host),
                           LegacyValue(req, X_FORWARDED_HOST),
                           IF req.headers[HOST] # <<>> /\ IsText(req.headers[HOST][1])
                           THEN Some(req.headers[HOST][1]) ELSE None,
                           req.uri.authority,
                           Some(UsedConfig.host)>>)

\* C2 witness: no host in Forwarded, no X-Forwarded-Host, a Host header and a
\* URI authority: the host is the Host header's value
C2_Witness ==
    /\ IsSome(info)
    /\ FirstForwarded(req, S_host) = None
    /\ req.headers[X_FORWARDED_HOST] = <<>>
    /\ req.headers[HOST] = <<H_value>>
    /\ req.uri.authority = Some(U_authority)
    /\ host(Returned) = H_value

\* C3: realip_remote_addr() is the first for value of Forwarded, else the
\* (trimmed) first comma-separated value of X-Forwarded-For, else the text of
\* the transport peer address, and None only when all three are absent.
C3_RealIpPrecedence ==
    IsSome(info) =>
        realip_remote_addr(Returned) =
            FirstDefined(<<FirstForwarded(req, S_for),
                           LegacyValue(req, X_FORWARDED_FOR),
                           PeerText(req.peer_addr)>>)

\* C3 witness: neither a for in Forwarded nor a usable X-Forwarded-For, but a
\* peer address: realip_remote_addr() is its text
C3_Witness ==
    /\ IsSome(info)
    /\ FirstForwarded(req, S_for) = None
    /\ LegacyValue(req, X_FORWARDED_FOR) = None
    /\ IsSome(req.peer_addr)
    /\ realip_remote_addr(Returned) = Some(S_peer)

\* C4: for each of for, proto and host, the resolved value is that of the first
\* token with that name in the stream of all Forwarded occurrences (occurrence,
\* then position in it); a later token with the name never replaces it.
C4_FirstTokenWins ==
    IsSome(info) =>
        LET for   == FirstForwarded(req, S_for)
            proto == FirstForwarded(req, S_proto)
            hst   == FirstForwarded(req, S_host)
        IN  /\ IsSome(for) => Returned.realip_remote_addr = for
            /\ IsSome(proto) => Some(Returned.scheme) = proto
            /\ IsSome(hst) => Some(Returned.host) = hst

\* C4 witness: host=h1 in one Forwarded occurrence, then by=c3 and HOST="h2" in
\* a second one: the host is h1
C4_Witness ==
    /\ IsSome(info)
    /\ req.headers[FORWARDED] = <<I_host1, I_by \o <<";">> \o I_host2>>
    /\ Returned.host = <<"h", "1">>

\* C5: the scheme and the host of the resolved ConnectionInfo are never empty
\* strings, also when the forwarding headers carry empty values.
C5_NeverEmpty ==
    IsSome(info) => scheme(Returned) # <<>> /\ host(Returned) # <<>>

\* C6: PeerAddr::from_request fails with MissingPeerAddr exactly when the
\* request has no peer address, and otherwise wraps that address unchanged.
C6_PeerAddr ==
    IsSome(peer) =>
        /\ Unwrap(peer).ok <=> IsSome(req.peer_addr)
        /\ Unwrap(peer).ok => Unwrap(peer).addr = Unwrap(req.peer_addr)
        /\ ~Unwrap(peer).ok => Unwrap(peer) = MissingPeerAddr

\* C6 witness: the extractor failed on a request that has forwarding headers
\* but no peer address
C6_Witness ==
    /\ IsSome(peer)
    /\ ~Unwrap(peer).ok
    /\ req.headers[FORWARDED] = <<F_full>>
    /\ req.peer_addr = None

\* C7: over the get calls on one request, new runs on the first call only; the
\* value it stored in the extensions is never replaced, and every call returns
\* that stored value.
C7_Memoized ==
    [][/\ newCalls' <= 1
       /\ IsSome(extensions) => extensions' = extensions /\ newCalls' = newCalls
       /\ IsSome(info) => info' = info
       /\ IsSome(info') => info' = extensions']_vars

\* C7 witness: two get calls ran on a request whose resolution depends on the
\* config passed, and new ran once
C7_Witness ==
    /\ calls >= 2
    /\ peer = None
    /\ newCalls = 1
    /\ IsSome(info)
    /\ \E c \in Configs : new(req, c) # Unwrap(info)

\* C8 as stated: with no transport peer address, realip_remote_addr() is None.
C8_Original ==
    IsSome(info) /\ req.peer_addr = None => realip_remote_addr(Returned) = None

\* C8 amended: with no transport peer address, no for in Forwarded and no
\* usable X-Forwarded-For, realip_remote_addr() is None.
C8_NoSourceNoRealIp ==
    /\ IsSome(info)
    /\ req.peer_addr = None
    /\ FirstForwarded(req, S_for) = None
    /\ LegacyValue(req, X_FORWARDED_FOR) = None
    => realip_remote_addr(Returned) = None

\* C8 witness: a request with a Host and an X-Forwarded-Host header only
C8_Witness ==
    /\ IsSome(info)
    /\ req.peer_addr = None
    /\ req.headers[FORWARDED] = <<>>
    /\ req.headers[X_FORWARDED_FOR] = <<>>
    /\ req.headers[X_FORWARDED_HOST] = <<XH_list>>
    /\ req.headers[HOST] = <<H_value>>
    /\ realip_remote_addr(Returned) = None

\* C9 as stated: when the Forwarded header contains a proto=https parameter,
\* the scheme is "https".
C9_Original ==
    /\ IsSome(info)
    /\ \E st \in Named(req, S_proto) : TokenValue(TokenAt(req, st)) = S_https
    => scheme(Returned) = S_https

\* C9 amended: when the first proto parameter of the Forwarded header is
\* https, the scheme is "https", whatever the other headers, the URI and the
\* config are.
C9_FirstProtoHttps ==
    IsSome(info) /\ FirstForwarded(req, S_proto) = Some(S_https)
    => scheme(Returned) = S_https

\* C9 witness: Forwarded with proto=https against X-Forwarded-Proto http and a
\* URI of scheme http
C9_Witness ==
    /\ IsSome(info)
    /\ req.headers[FORWARDED] = <<F_full>>
    /\ req.headers[X_FORWARDED_PROTO] = <<XP_list>>
    /\ req.uri.scheme = Some(S_http)
    /\ ~UsedConfig.secure
    /\ scheme(Returned) = S_https

\* the raw value of the one Forwarded parameter of a SpecUnq request, and the
\* field it is resolved to
OnlyToken == req.headers[FORWARDED][1]
OnlyRawValue == TokenRawValue(OnlyToken)
OnlyResolved ==
    IF TokenHasName(OnlyToken, S_for) THEN Unwrap(Returned.realip_remote_addr)
    ELSE IF TokenHasName(OnlyToken, S_proto) THEN Returned.scheme
    ELSE Returned.host

\* C10 as stated: the resolved value of a Forwarded parameter is its raw value
\* trimmed of whitespace and then without exactly one layer of quotes.
C10_Original ==
    IsSome(info) => OnlyResolved = OneQuoteLayerStripped(WsTrimmed(OnlyRawValue))

\* C10 amended: the resolved value of a Forwarded parameter is its raw value
\* trimmed of whitespace and then without every leading and every trailing
\* quote; what lies between them is kept as it is.
C10_AllQuotesStripped ==
    IsSome(info) => OnlyResolved = AllQuotesStripped(WsTrimmed(OnlyRawValue))

\* C10 witness: the raw value ""a resolves to a
C10_Witness ==
    /\ IsSome(info)
    /\ OnlyRawValue = <<QUOTE, QUOTE, "a">>
    /\ OnlyResolved = <<"a">>

====
